---- MODULE Spec2Model ----
(***************************************************************************)
(* PlayCord: the matchmaking -> game-session -> settlement pipeline of     *)
(* src/utils/interfaces.py, src/bot.py and src/utils/database.py.          *)
(*                                                                         *)
(* Scheduling model: one asyncio event loop.  A coroutine runs without     *)
(* interruption from one suspension point (an await that really suspends)  *)
(* to the next, so every action below is one such synchronous block of one *)
(* task.  Consecutive awaits with no state change between them are one     *)
(* program position.  GameInterface.display_game_state is declared async   *)
(* but never suspends (it only calls asyncio.create_task), so awaiting it  *)
(* is part of the block that calls it.                                     *)
(*                                                                         *)
(* A lobby is named by the id of its message; the session made from a      *)
(* lobby is named by the same number (its thread is created off that       *)
(* message), and so is its match row in the repository.                    *)
(***************************************************************************)
EXTENDS Integers, Sequences, FiniteSets, TLC

\* ------------------------------------------------------------------ bounds
NumPlayers == 2
MaxLobbies == 2
\* coroutines in flight at once
MaxTasks == 2
\* move submissions to the sessions, and calls of the lobby operations
MaxMoves == 3
MaxCalls == 3
\* player counts a plugin may declare, and how many it may list
MaxCount == 3
MaxListed == 2
\* players of a session whose settlement is examined, and players of a
\* lobby whose order of play is examined
MaxRanked == 4
MaxJoined == 3

Players == 1..NumPlayers
LobbyIds == 1..MaxLobbies
Tasks == 1..MaxTasks

\* Python's None, for a player, a lobby or a session reference.
None == 0

VARIABLES
    CURRENT_GAMES,        \* constants.py: ids of the registered GameInterfaces
    CURRENT_MATCHMAKING,  \* constants.py: ids of the registered MatchmakingInterfaces
    IN_GAME,              \* constants.py: player -> session (None: no key)
    IN_MATCHMAKING,       \* constants.py: player -> lobby (None: no key)
    lobby,                \* the MatchmakingInterface objects
    session,              \* the GameInterface objects, each with its plugin
    db,                   \* the repository rows the pipeline reads and writes
    invites,              \* invite buttons delivered and not yet disabled
    task,                 \* the coroutines in flight
    calls,                \* how many operations have been called so far
    applied,              \* the last application of a pure function (SpecPure)
    tictactoe             \* a TicTacToeGame object (SpecTicTacToe)

vars == <<CURRENT_GAMES, CURRENT_MATCHMAKING, IN_GAME, IN_MATCHMAKING,
          lobby, session, db, invites, task, calls, applied, tictactoe>>

\* Nothing applied yet.
NotApplied == [fn |-> "none", input |-> <<>>, output |-> <<>>]

\* ------------------------------------------------------------ small helpers
Range(f) == {f[i] : i \in DOMAIN f}

RECURSIVE SetToSeq(_)
SetToSeq(S) ==
    IF S = {} THEN <<>>
    ELSE LET m == CHOOSE x \in S : \A y \in S : x <= y
         IN <<m>> \o SetToSeq(S \ {m})

\* dict.pop(key) for each key of a list, in order; KeyError at the first
\* missing key leaves the earlier pops done.
RECURSIVE PopSeq(_, _)
PopSeq(m, ps) ==
    IF ps = <<>> THEN [map |-> m, ok |-> TRUE]
    ELSE IF m[Head(ps)] = None THEN [map |-> m, ok |-> FALSE]
    ELSE PopSeq([m EXCEPT ![Head(ps)] = None], Tail(ps))

\* ------------------------------------------------------------ asyncio.Lock
\* locked: Lock._locked.  waiters: Lock._waiters, in arrival order.  woken:
\* release() has set the result of the first waiter's future and that waiter
\* has not run yet.
NewLock == [locked |-> FALSE, waiters |-> <<>>, woken |-> FALSE]

\* A fast path that looks at the waiters only and not at who holds the lock.
CanAcquireUnlessQueued(l) == l.waiters = <<>>

\* A fast path that takes a free lock past the moves that wait for it.
CanAcquireWhenFree(l) == ~l.locked

\* acquire(), fast path: not locked and nobody is waiting.
CanAcquireNow(l) == ~l.locked /\ l.waiters = <<>>
Acquired(l) == [l EXCEPT !.locked = TRUE]
\* acquire(), slow path: append a future and suspend.
Enqueued(l, t) == [l EXCEPT !.waiters = Append(@, t)]
\* the first waiter runs again: leaves the queue and takes the lock.
CanResume(l, t) == l.waiters # <<>> /\ Head(l.waiters) = t /\ l.woken /\ ~l.locked
Resumed(l) == [locked |-> TRUE, waiters |-> Tail(l.waiters), woken |-> FALSE]
\* A release that unlocks and wakes nobody.
release_silently(l) == [locked |-> FALSE, waiters |-> l.waiters, woken |-> FALSE]

\* release(), as run by the exit of "async with": unlock, wake the first waiter.
release(l) == [locked |-> FALSE, waiters |-> l.waiters, woken |-> l.waiters # <<>>]

\* ------------------------------------------------------ the plugin contract
\* api/Game.py: outcome() is None, one Player, a list of lists of Players
\* (placement groups, best first) or an error string.
NoOutcome == [kind |-> "none", who |-> None, groups |-> <<>>]
WinnerOutcome(p) == [kind |-> "winner", who |-> p, groups |-> <<>>]
RankedOutcome(g) == [kind |-> "ranked", who |-> None, groups |-> g]
ErrorOutcome == [kind |-> "error", who |-> None, groups |-> <<>>]

\* The placement lists over a set of players: every way to give the players
\* gap-free places 0..k, players of one place listed by ascending id.
Placements(ps) ==
    LET n == Cardinality(ps)
        dense == {r \in [ps -> 0..(n - 1)] :
                    \A k \in 0..(n - 1) :
                        (\E p \in ps : r[p] = k) =>
                            \A j \in 0..k : \E q \in ps : r[q] = j}
        top(r) == CHOOSE k \in 0..(n - 1) :
                    (\E p \in ps : r[p] = k) /\ \A q \in ps : r[q] <= k
    IN {[i \in 1..(top(r) + 1) |-> SetToSeq({p \in ps : r[p] = i - 1})] : r \in dense}

Outcomes(ps) ==
    {NoOutcome, ErrorOutcome} \cup {WinnerOutcome(p) : p \in ps}
        \cup {RankedOutcome(g) : g \in Placements(ps)}

\* A plugin instance: whose turn it is, and the outcome it reports.
GameStates(ps) == [turn : ps, outcome : Outcomes(ps)]
NoGame == [turn |-> None, outcome |-> NoOutcome]
\* Game.__init__ as TicTacToeGame does it: the first player of the list begins.
NewGame(players) ==
    [turn |-> IF players = <<>> THEN None ELSE players[1], outcome |-> NoOutcome]
current_turn(g) == g.turn
outcome(g) == g.outcome

\* ------------------------------------------------------------- Tic-Tac-Toe
\* TicTacToeGame.size: the board is size x size.
Size == 3
Idx == 0..(Size - 1)

\* BoardCell(): a cell nobody owns has id None.
BoardCell == None

\* TicTacToeGame.__init__: players[0] is x, players[1] is o; the board is
\* empty and the turn is index 0 of the players.
TicTacToeGame(players) ==
    [players |-> players,
     board |-> [row \in Idx |-> [col \in Idx |-> BoardCell]],
     turn |-> 0]

\* The arguments of the board's buttons and the values of the move
\* autocomplete: a column digit followed by a row digit.
Moves == Idx \X Idx

\* TicTacToeGame.current_turn.
tictactoe_current_turn(g) == g.players[g.turn + 1]

\* TicTacToeGame.move(player, move) with mv the two digits of move, column
\* first: the cell board[int(move[1])][int(move[0])] is taken
\* for the player whose turn it is, then the turn goes to the next player.
tictactoe_move(g, mv) ==
    [g EXCEPT !.board[mv[2]][mv[1]] = g.players[g.turn + 1],
              !.turn = IF g.turn + 1 = Len(g.players) THEN 0 ELSE g.turn + 1]

\* TicTacToeGame.outcome: the owner of a full row, column or diagonal, in
\* that order of search; else both players in one group when the board is
\* full; else None.
tictactoe_outcome(g) ==
    LET b == g.board
        rows == {r \in Idx : b[r][0] # None /\ \A c \in Idx : b[r][c] = b[r][0]}
        cols == {c \in Idx : b[0][c] # None /\ \A r \in Idx : b[r][c] = b[0][c]}
        first(S) == CHOOSE x \in S : \A y \in S : x <= y
    IN IF rows # {} THEN WinnerOutcome(b[first(rows)][0])
       ELSE IF cols # {} THEN WinnerOutcome(b[0][first(cols)])
       ELSE IF b[0][0] # None /\ \A i \in Idx : b[i][i] = b[0][0]
       THEN WinnerOutcome(b[0][0])
       ELSE IF b[0][2] # None /\ \A i \in Idx : b[i][2 - i] = b[0][2]
       THEN WinnerOutcome(b[0][2])
       ELSE IF \A r, c \in Idx : b[r][c] # None
       THEN RankedOutcome(<<<<g.players[1], g.players[2]>>>>)
       ELSE NoOutcome

\* The handlers a plugin may expose, by the annotation of their argument;
\* "missing" is a name the plugin has no attribute for.
MoveNames == {"move_int", "move_float", "move_str", "missing"}
Resolves(name) == name # "missing"
Annotation(name) ==
    CASE name = "move_int" -> "int"
      [] name = "move_float" -> "float"
      [] OTHER -> "other"

\* The argument strings of a button's custom_id, and Python's int() and
\* float() on them: whether the conversion returns or raises ValueError.
ArgStrings == {"1", "1.5", "x"}
IntParses(a) == a = "1"
FloatParses(a) == a \in {"1", "1.5"}

\* --------------------------------------------------- the player-count validator
\* The players a Tic-Tac-Toe game is for (TicTacToeGame.players).
TicTacToePlayers == 2

\* A plugin's "players" attribute: one int, or a list of ints.
AsInt(k) == [type |-> "int", value |-> k]
AsList(L) == [type |-> "list", value |-> L]

\* A validator that lets every size from the declared one upwards through.
AtLeastPossiblePlayers(possible_players, x) ==
    IF possible_players.type = "int" THEN x >= possible_players.value
    ELSE x \in Range(possible_players.value)

\* conversion.player_verification_function(possible_players)(x).
player_verification_function(possible_players, x) ==
    IF possible_players.type = "int" THEN x = possible_players.value
    ELSE x \in Range(possible_players.value)

\* ------------------------------------------------------------------ records
\* MatchmakingInterface.  outcome: "None" (pending), "True", "False".
\* can_start: the lobby message shows the start button enabled (the
\* MatchmakingView of the last repaint that reached the message).
NoLobby ==
    [created |-> FALSE, creator |-> None, rated |-> FALSE, private |-> FALSE,
     whitelist |-> {}, blacklist |-> {}, queued_players |-> {}, outcome |-> "None",
     can_start |-> FALSE]

\* GameInterface.  thread: whether setup() has created the thread.  game: the
\* plugin instance.  settlements, handler_calls: how often game_over was
\* entered for this session and how often a plugin handler was invoked.
NoSession ==
    [created |-> FALSE, players |-> <<>>, rated |-> FALSE, creator |-> None,
     thread |-> FALSE, ending_game |-> FALSE,
     processing_move |-> NewLock, game |-> NoGame,
     settlements |-> 0, handler_calls |-> 0]

\* api.Game.PlayerOrder.
PlayerOrders == {"RANDOM", "PRESERVE", "CREATOR_FIRST", "REVERSE"}

\* GameInterface.__init__ followed by setup() and the first display_game_state.
RunningSession(players, creator, rated) ==
    [created |-> TRUE, players |-> players, rated |-> rated, creator |-> creator,
     thread |-> TRUE, ending_game |-> FALSE, processing_move |-> NewLock, game |-> NewGame(players),
     settlements |-> 0, handler_calls |-> 0]

\* The repository: the matches table (ids), the match_participants rows and
\* user_game_ratings.matches_played.
NewDb == [matches |-> {}, match_participants |-> {}, matches_played |-> [p \in Players |-> 0]]

\* A coroutine.  op: what was called.  pc: the suspension point it is at.
\* outcome: the local variable of the move that saw a non-null outcome.
\* result, err: how the call ended; "escaped" is an exception that left the
\* operation for the caller (the transport layer), err names what raised it.
\* alone: the kick or ban was called by the only queued member on themself.
IdleTask ==
    [op |-> "idle", pc |-> "idle", user |-> None, id |-> None, req |-> FALSE,
     target |-> None, kicked |-> FALSE, alone |-> FALSE, outcome |-> NoOutcome,
     result |-> "none", err |-> "none"]
\* A record keeps a local variable only while the coroutine still reads it:
\* a finished call keeps how it ended, a move past its handler keeps the
\* session and the outcome it saw.
At(tk, pc) == [tk EXCEPT !.pc = pc]
Past(tk, pc) == [IdleTask EXCEPT !.op = "move", !.pc = pc, !.id = tk.id, !.outcome = tk.outcome]
Finished(tk, result, err) ==
    [IdleTask EXCEPT !.op = "done", !.pc = "done", !.result = result, !.err = err]

\* A call runs as the first task that is not in flight.
Free(t) == task[t].op \in {"idle", "done"}
CanStart(t) == Free(t) /\ \A u \in 1..(t - 1) : ~Free(u)

MoveOps == {"command", "button", "select", "move"}
\* The positions of a move between acquiring and releasing processing_move.
LockedPcs == {"not_your_turn", "move_error", "respond", "game_over_msg",
              "settled_error", "settled"}

\* ------------------------------------------------------------------- moves
LobbyVars == <<CURRENT_MATCHMAKING, IN_MATCHMAKING, lobby, invites>>

SetSession(s, se) == session' = [session EXCEPT ![s] = se]
\* A coroutine takes its step; every step of the bot is one, and none of
\* them is an examination of a pure function.
SetTask(t, tk) == task' = [task EXCEPT ![t] = tk] /\ UNCHANGED <<applied, tictactoe>>

\* An exception leaves the "async with self.processing_move" block of the
\* move: the lock is released on the way out and the move's caller gets it.
Escape(t, s, se, tk, err) ==
    /\ SetSession(s, [se EXCEPT !.processing_move = release(@)])
    /\ SetTask(t, Finished(tk, "escaped", err))

\* The value written as every participant's "ranking" in the rating updates.
RANKING == 3

\* Database.end_game: the match must exist; one match_participants row per
\* rating update, then matches_played + 1 for each.  dup_raises: the INSERT of
\* a row that already exists for (match, user) raises; the table's keys are
\* not part of the sources, so both answers are possible.
end_game(d, match, uids, dup_raises) ==
    IF match \notin d.matches THEN [db |-> d, ok |-> FALSE]
    ELSE IF dup_raises /\ \E r \in d.match_participants : r.match = match /\ r.uid \in uids
    THEN [db |-> d, ok |-> FALSE]
    ELSE [db |-> [d EXCEPT
                    !.match_participants =
                        @ \cup {[match |-> match, uid |-> u, ranking |-> RANKING] : u \in uids},
                    !.matches_played =
                        [p \in Players |-> IF p \in uids THEN @[p] + 1 ELSE @[p]]],
          ok |-> TRUE]

\* game_over, "for placement in outcome: for player in placement": each
\* player gets current_ranking and a group of their own, and the ranking goes
\* up by one after each placement.
RECURSIVE enumerate_placements(_, _)
enumerate_placements(placements, current_ranking) ==
    IF placements = <<>> THEN [rankings |-> <<>>, groups |-> <<>>]
    ELSE LET placement == Head(placements)
             rest == enumerate_placements(Tail(placements), current_ranking + 1)
         IN [rankings |-> [i \in 1..Len(placement) |-> current_ranking] \o rest.rankings,
             groups |-> [i \in 1..Len(placement) |-> <<placement[i]>>] \o rest.groups]

\* A settlement that ranks every player by their position in the outcome.
rankings_by_position(placements) ==
    [enumerate_placements(placements, 0) EXCEPT !.rankings = [j \in DOMAIN @ |-> j - 1]]

\* game_over for a list outcome: rankings and groups, "current_ranking = 0".
ranked_rankings(placements) == enumerate_placements(placements, 0)

\* A settlement that keeps the winner among the other players.
winner_rankings_unfiltered(players, winner) ==
    [rankings |-> <<0>> \o [i \in 1..Len(players) |-> 1],
     groups |-> <<(<<winner>>)>> \o [i \in 1..Len(players) |-> <<players[i]>>]]

\* game_over for a single winner: the winner's group first, then a group for
\* each p of players with p != outcome; rankings [0, 1, ..., 1] with one
\* entry per player of the session.
winner_rankings(players, winner) ==
    LET losers == SelectSeq(players, LAMBDA p : p # winner)
    IN [rankings |-> <<0>> \o [i \in 1..(Len(players) - 1) |-> 1],
        groups |-> <<(<<winner>>)>> \o [i \in 1..Len(losers) |-> <<losers[i]>>]]

\* game_over, rated single winner: the ids of the rating groups, the winner
\* and every session player that is not the winner.
RatingUids(se, oc) == {oc.who} \cup {p \in Range(se.players) : p # oc.who}

\* game_over from "for p in players: IN_GAME.pop(p)" to its first await.
teardown(t, s, se, tk) ==
    LET pops == PopSeq(IN_GAME, se.players)
    IN /\ IN_GAME' = pops.map
       /\ IF pops.ok /\ s \in CURRENT_GAMES
          THEN /\ CURRENT_GAMES' = CURRENT_GAMES \ {s}
               /\ SetSession(s, se)
               /\ SetTask(t, Past(tk, "settled"))
          ELSE /\ UNCHANGED CURRENT_GAMES
               /\ Escape(t, s, se, tk, "settlement")

\* game_over up to its first await.  An error string returns before any
\* teardown.  A rated placement list reaches rating_groups_to_string with
\* api.Player keys, which have no attribute named after the game type:
\* AttributeError, before any repository write.
game_over(t, s, se0, tk) ==
    LET oc == tk.outcome
        se == [se0 EXCEPT !.ending_game = TRUE, !.settlements = @ + 1]
    IN \/ /\ oc.kind = "error"
          /\ SetSession(s, se)
          /\ SetTask(t, Past(tk, "settled_error"))
          /\ UNCHANGED <<db, IN_GAME, CURRENT_GAMES>>
       \/ /\ oc.kind = "ranked" /\ se.rated
          /\ Escape(t, s, se, tk, "settlement")
          /\ UNCHANGED <<db, IN_GAME, CURRENT_GAMES>>
       \/ /\ oc.kind = "winner" /\ se.rated
          /\ \E dup_raises \in BOOLEAN :
                LET r == end_game(db, s, RatingUids(se, oc), dup_raises)
                IN /\ db' = r.db
                   /\ IF r.ok THEN teardown(t, s, se, tk)
                      ELSE /\ Escape(t, s, se, tk, "settlement")
                           /\ UNCHANGED <<IN_GAME, CURRENT_GAMES>>
       \/ /\ oc.kind \in {"winner", "ranked"} /\ ~se.rated
          /\ UNCHANGED db
          /\ teardown(t, s, se, tk)

\* display_game_state (it paints; the self.current_turn it stores is read
\* by the painting only and is not kept here) and the outcome check after it.
display_and_outcome(t, s, se0, tk) ==
    LET se == se0
        oc == outcome(se.game)
    IN IF oc = NoOutcome
       THEN /\ SetSession(s, [se EXCEPT !.processing_move = release(@)])
            /\ SetTask(t, Finished(tk, "ok", "none"))
       ELSE /\ SetSession(s, se)
            /\ SetTask(t, Past([tk EXCEPT !.outcome = oc], "game_over_msg"))

\* After the handler returned.  resp: it returned a Response (sent with an
\* await).  A command awaits in either case (a null response deletes the
\* original response); a button or select with a null response goes on.
after_handler(t, s, se, tk, resp) ==
    IF tk.op = "command" \/ resp
    THEN SetSession(s, se) /\ SetTask(t, Past(tk, "respond"))
    ELSE display_and_outcome(t, s, se, tk)

\* A move without the except branch: the handler's exception leaves it.
handler_error_uncaught(t, s, se, tk) == Escape(t, s, se, tk, "handler")

\* The except branch of the move: the error embed is sent to the actor.
on_handler_error(t, s, se, tk) ==
    SetSession(s, se) /\ SetTask(t, Past(tk, "move_error"))

\* The plugin handler is called: it raises, or returns and leaves the plugin
\* in any state of the contract.
invoke(t, s, se0, tk) ==
    LET se == [se0 EXCEPT !.handler_calls = @ + 1]
    IN \/ on_handler_error(t, s, se, tk)
       \/ \E g \in GameStates(Range(se.players)), resp \in BOOLEAN :
              after_handler(t, s, [se EXCEPT !.game = g], tk, resp)

\* A turn check that refuses nobody.
TurnNeverChecked(user, turn, req) == FALSE

\* "ctx.user.id != self.current_turn.id and current_turn_required"
NotYourTurn(user, turn, req) == user # turn /\ req

\* int(...) / float(...) of a button argument by the handler's annotation.
Coerces(name, arg) ==
    CASE Annotation(name) = "int" -> IntParses(arg)
      [] Annotation(name) = "float" -> FloatParses(arg)
      [] OTHER -> TRUE

\* The body of move_by_command / move_by_button / move_by_select from the
\* acquisition of processing_move to the first await.  se has the lock held.
\* The move's name and argument are read here for the first time.
\* command: handler lookup and call are inside the try.  button: getattr,
\* inspect.signature and the int()/float() conversions come before the try.
\* select: getattr comes before the try.
move(t, s, se, tk) ==
    LET named == {c \in MoveNames \X ArgStrings : Resolves(c[1])}
        coerced == {c \in named : tk.op = "button" => Coerces(c[1], c[2])}
    IN IF NotYourTurn(tk.user, current_turn(se.game), tk.req)
       THEN SetSession(s, se) /\ SetTask(t, Past(tk, "not_your_turn"))
       ELSE \/ /\ MoveNames \ {c[1] : c \in named} # {}
               /\ IF tk.op = "command" THEN on_handler_error(t, s, se, tk)
                  ELSE Escape(t, s, se, tk, "no_handler")
            \/ /\ named \ coerced # {}
               /\ Escape(t, s, se, tk, "coercion")
            \/ /\ coerced # {}
               /\ invoke(t, s, se, tk)

\* A move arrives for a session that was made (its thread and buttons exist):
\* registry lookup by the caller, then the ending check and
\* "async with self.processing_move".
move_entry(t, op, user, s, req) ==
    LET tk == [IdleTask EXCEPT !.op = op, !.pc = "running", !.user = user,
                               !.id = s, !.req = req]
    IN /\ session[s].created
       /\ UNCHANGED <<LobbyVars, db, IN_GAME, CURRENT_GAMES>>
       /\ IF s \notin CURRENT_GAMES
          THEN SetTask(t, Finished(tk, "over", "none")) /\ UNCHANGED session
          ELSE IF session[s].ending_game
          THEN SetTask(t, Finished(tk, "ending", "none")) /\ UNCHANGED session
          ELSE IF CanAcquireNow(session[s].processing_move)
          THEN move(t, s, [session[s] EXCEPT !.processing_move = Acquired(@)], tk)
          ELSE /\ SetSession(s, [session[s] EXCEPT !.processing_move = Enqueued(@, t)])
               /\ SetTask(t, At(tk, "waiting"))

\* A move submission is taken up.
Submitted(t) == CanStart(t) /\ calls < MaxMoves /\ calls' = calls + 1

\* bot.handle_move -> GameInterface.move_by_command (turn always required).
handle_move(t) ==
    \E user \in Players, s \in LobbyIds :
        /\ Submitted(t)
        /\ move_entry(t, "command", user, s, TRUE)

\* bot.game_button_callback -> GameInterface.move_by_button.
game_button_callback(t) ==
    \E user \in Players, s \in LobbyIds, req \in BOOLEAN :
        /\ Submitted(t)
        /\ move_entry(t, "button", user, s, req)

\* bot.game_select_callback -> GameInterface.move_by_select.
game_select_callback(t) ==
    \E user \in Players, s \in LobbyIds, req \in BOOLEAN :
        /\ Submitted(t)
        /\ move_entry(t, "select", user, s, req)

\* A move that waited for processing_move is woken and runs its body.
move_resume(t) ==
    LET tk == task[t]
        s == tk.id
    IN /\ tk.op \in MoveOps /\ tk.pc = "waiting"
       /\ CanResume(session[s].processing_move, t)
       /\ UNCHANGED <<LobbyVars, db, IN_GAME, CURRENT_GAMES, calls>>
       /\ move(t, s, [session[s] EXCEPT !.processing_move = Resumed(@)], At(tk, "running"))

\* The awaits that deliver the handler's response have returned.
move_after_response(t) ==
    LET tk == task[t]
    IN /\ tk.op \in MoveOps /\ tk.pc = "respond"
       /\ UNCHANGED <<LobbyVars, db, IN_GAME, CURRENT_GAMES, calls>>
       /\ display_and_outcome(t, tk.id, session[tk.id], tk)

\* The "Game over!" message has been sent: game_over(self, outcome) runs.
move_game_over(t) ==
    LET tk == task[t]
    IN /\ tk.op \in MoveOps /\ tk.pc = "game_over_msg"
       /\ UNCHANGED <<LobbyVars, calls>>
       /\ game_over(t, tk.id, session[tk.id], tk)

\* The last awaits of a move have returned: it returns and "async with"
\* releases processing_move.
move_return(t) ==
    LET tk == task[t]
        s == tk.id
    IN /\ tk.op \in MoveOps
       /\ tk.pc \in {"not_your_turn", "move_error", "settled_error", "settled"}
       /\ UNCHANGED <<LobbyVars, db, IN_GAME, CURRENT_GAMES, calls>>
       /\ SetSession(s, [session[s] EXCEPT !.processing_move = release(@)])
       /\ SetTask(t, Finished(tk,
                     CASE tk.pc = "not_your_turn" -> "not_your_turn"
                       [] tk.pc = "move_error" -> "move_error"
                       [] OTHER -> "game_over",
                     "none"))

\* ----------------------------------------------------------------- lobbies
GameVars == <<CURRENT_GAMES, IN_GAME, session, db>>

SetLobby(l, lb) == lobby' = [lobby EXCEPT ![l] = lb]
NewTask(op, user, l) == [IdleTask EXCEPT !.op = op, !.pc = "running", !.user = user, !.id = l]

\* A call of a lobby operation is taken up.
Called(t) == CanStart(t) /\ calls < MaxCalls /\ calls' = calls + 1

\* The orders in which a set can be listed (list(set), iteration of a set).
Orders(S) ==
    {f \in [1..Cardinality(S) -> S] : \A i, j \in 1..Cardinality(S) : i # j => f[i] # f[j]}

\* MatchmakingInterface.__init__ with the creator's player record at hand;
\* the message is the loading screen, without buttons.
MatchmakingInterface(creator, rated, private) ==
    [created |-> TRUE, creator |-> creator, rated |-> rated, private |-> private,
     whitelist |-> {creator}, blacklist |-> {}, queued_players |-> {creator},
     outcome |-> "None", can_start |-> FALSE]

\* MatchmakingInterface.update_embed: the message is repainted, its start
\* button enabled iff the validator of the game accepts the size of the queue.
update_embed(lb) ==
    [lb EXCEPT !.can_start =
        player_verification_function(AsInt(TicTacToePlayers), Cardinality(lb.queued_players))]

\* The id of the message a new lobby is shown in.
FreshLobbies == {l \in LobbyIds : ~lobby[l].created /\ \A k \in 1..(l - 1) : lobby[k].created}

\* "self.creator = next(iter(self.queued_players)).user" when the player that
\* went was the creator: any of the players left.
Reassigned(lb, gone) ==
    IF gone = lb.creator THEN {[lb EXCEPT !.creator = c] : c \in lb.queued_players}
    ELSE {lb}

\* A creation that registers the lobby before it asks for the creator.
creation_failed_registered(t, tk) ==
    /\ CURRENT_MATCHMAKING' = CURRENT_MATCHMAKING \cup {tk.id}
    /\ IN_MATCHMAKING' = [IN_MATCHMAKING EXCEPT ![tk.user] = tk.id]
    /\ UNCHANGED lobby
    /\ SetTask(t, Finished(tk, "escaped", "database"))

\* MatchmakingInterface.__init__ when get_player raises: the exception leaves
\* the constructor at its first repository call, before the two registry
\* updates, and leaves the command.
creation_failed(t, tk) ==
    /\ UNCHANGED <<lobby, CURRENT_MATCHMAKING, IN_MATCHMAKING>>
    /\ SetTask(t, Finished(tk, "escaped", "database"))

\* bot.command_error, the error handler of the play group: what the caller
\* is shown when a call of /play has ended as tk.  An exception that left the
\* command is answered with an error embed.
command_error(tk) ==
    IF tk.result = "escaped" THEN "error_embed" ELSE "none"

\* bot.begin_game after the loading message is up: a MatchmakingInterface is
\* made for the caller.  db_up: get_player reaches the database; it raises
\* otherwise, before anything is registered.
begin_game(t) ==
    \E user \in Players, rated, private, db_up \in BOOLEAN, l \in FreshLobbies :
        LET tk == NewTask("play", user, l)
        IN /\ Called(t)
           /\ UNCHANGED <<GameVars, invites>>
           /\ IF db_up
              THEN /\ SetLobby(l, update_embed(MatchmakingInterface(user, rated, private)))
                   /\ CURRENT_MATCHMAKING' = CURRENT_MATCHMAKING \cup {l}
                   /\ IN_MATCHMAKING' = [IN_MATCHMAKING EXCEPT ![user] = l]
                   /\ SetTask(t, Finished(tk, "created", "none"))
              ELSE creation_failed(t, tk)

\* An expired button that puts its lobby back into the registry.
ExpiredRevives(t, tk) ==
    /\ SetTask(t, Finished(tk, "expired", "none"))
    /\ CURRENT_MATCHMAKING' = CURRENT_MATCHMAKING \cup {tk.id}
    /\ UNCHANGED <<lobby, IN_MATCHMAKING>>

\* bot.matchmaking_button_callback after its defer: the lobby of the button
\* is looked up; a button of a lobby that is not registered has expired.
Expired(t, tk) ==
    /\ SetTask(t, Finished(tk, "expired", "none"))
    /\ UNCHANGED <<lobby, CURRENT_MATCHMAKING, IN_MATCHMAKING>>

\* A join that does not look at the queue.
JoinRefusalRequeues(lb, user) ==
    IF ~lb.private /\ user \in lb.blacklist THEN "banned"
    ELSE IF lb.private /\ user \notin lb.whitelist THEN "not_whitelisted"
    ELSE "no"

\* A join that does not look at the whitelist of a private lobby.
JoinRefusalOpenPrivate(lb, user) ==
    IF user \in lb.queued_players THEN "already_in"
    ELSE IF ~lb.private /\ user \in lb.blacklist THEN "banned"
    ELSE "no"

\* A join that does not look at the blacklist of a public lobby.
JoinRefusalIgnoresBan(lb, user) ==
    IF user \in lb.queued_players THEN "already_in"
    ELSE IF lb.private /\ user \notin lb.whitelist THEN "not_whitelisted"
    ELSE "no"

\* callback_ready_game, its three refusals: already queued; public and on
\* the blacklist; private and not on the whitelist.
JoinRefusal(lb, user) ==
    IF user \in lb.queued_players THEN "already_in"
    ELSE IF ~lb.private /\ user \in lb.blacklist THEN "banned"
    ELSE IF lb.private /\ user \notin lb.whitelist THEN "not_whitelisted"
    ELSE "no"

\* The join button of lobby l pressed by user: callback_ready_game.
ready_game(t, user, l) ==
    LET tk == NewTask("join", user, l)
        lb == lobby[l]
        refused == JoinRefusal(lb, user)
    IN /\ lb.created
       /\ UNCHANGED <<GameVars, invites>>
       /\ IF l \notin CURRENT_MATCHMAKING THEN Expired(t, tk)
          ELSE IF refused # "no"
          THEN /\ SetTask(t, Finished(tk, refused, "none"))
               /\ UNCHANGED <<lobby, CURRENT_MATCHMAKING, IN_MATCHMAKING>>
          ELSE /\ SetLobby(l, update_embed([lb EXCEPT !.queued_players = @ \cup {user}]))
               /\ IN_MATCHMAKING' = [IN_MATCHMAKING EXCEPT ![user] = l]
               /\ SetTask(t, Finished(tk, "joined", "none"))
               /\ UNCHANGED CURRENT_MATCHMAKING

callback_ready_game(t) ==
    \E user \in Players, l \in LobbyIds :
        /\ Called(t)
        /\ ready_game(t, user, l)

\* A removal that pops the marker and leaves the player in the queue.
RemoveMarkerOnly(l, player) ==
    [lb |-> lobby[l],
     ok |-> IN_MATCHMAKING[player] # None,
     map |-> [IN_MATCHMAKING EXCEPT ![player] = None]]

\* A player is taken out of the queue of a lobby: queued_players.remove and
\* IN_MATCHMAKING.pop, which raises KeyError (ok is FALSE) when the player
\* has no marker; the player is out of the queue by then.
RemoveQueued(l, player) ==
    [lb |-> [lobby[l] EXCEPT !.queued_players = @ \ {player}],
     ok |-> IN_MATCHMAKING[player] # None,
     map |-> [IN_MATCHMAKING EXCEPT ![player] = None]]

\* The KeyError of IN_MATCHMAKING.pop leaves the operation (err: the leave,
\* kick or ban it was raised in).
MarkerMissing(t, l, tk, lb) ==
    /\ SetLobby(l, lb)
    /\ UNCHANGED IN_MATCHMAKING
    /\ SetTask(t, Finished(tk, "escaped", tk.op))

\* The leave button of lobby l pressed by user: callback_leave_game up to
\* its first await that is followed by a change of state.
leave_game(t, user, l) ==
    LET tk == NewTask("leave", user, l)
        go(lb) ==
            IF lb.queued_players = {}
            THEN SetLobby(l, lb) /\ SetTask(t, At(tk, "leave_cancel"))
            ELSE /\ \E nlb \in Reassigned(lb, user) : SetLobby(l, update_embed(nlb))
                 /\ SetTask(t, Finished(tk, "left", "none"))
    IN /\ lobby[l].created
       /\ UNCHANGED <<GameVars, invites, CURRENT_MATCHMAKING>>
       /\ IF l \notin CURRENT_MATCHMAKING
          THEN Expired(t, tk)
          ELSE IF user \notin lobby[l].queued_players
          THEN /\ SetTask(t, Finished(tk, "not_in_game", "none"))
               /\ UNCHANGED <<lobby, IN_MATCHMAKING>>
          ELSE LET r == RemoveQueued(l, user)
               IN IF r.ok THEN IN_MATCHMAKING' = r.map /\ go(r.lb)
                  ELSE MarkerMissing(t, l, tk, r.lb)

callback_leave_game(t) ==
    \E user \in Players, l \in LobbyIds :
        /\ Called(t)
        /\ leave_game(t, user, l)

\* A start that anyone may press.
NotCreatorNever(lb, user) == FALSE

\* callback_start_game, its only test: "ctx.user.id != self.creator.id".
NotCreator(lb, user) == user # lb.creator

\* The start button of lobby l, shown enabled, pressed by user:
\* callback_start_game up to "await self.message.edit".
start_game(t, user, l) ==
    LET tk == NewTask("start", user, l)
    IN /\ lobby[l].created /\ lobby[l].can_start
       /\ UNCHANGED <<GameVars, invites, CURRENT_MATCHMAKING, IN_MATCHMAKING>>
       /\ IF l \notin CURRENT_MATCHMAKING
          THEN Expired(t, tk)
          ELSE IF NotCreator(lobby[l], user)
          THEN SetTask(t, Finished(tk, "cant_start", "none")) /\ UNCHANGED lobby
          ELSE /\ SetLobby(l, [lobby[l] EXCEPT !.outcome = "True"])
               /\ SetTask(t, At(tk, "starting"))

callback_start_game(t) ==
    \E user \in Players, l \in LobbyIds :
        /\ Called(t)
        /\ start_game(t, user, l)

\* db.create_game: the participants get their rows, the match is recorded.
create_game(d, match) == [d EXCEPT !.matches = @ \cup {match}]

Reversed(q) == [i \in 1..Len(q) |-> q[Len(q) + 1 - i]]

\* GameInterface.__init__, the order of play: listed is list(queued_players).
Ordered(policy, listed, creator) ==
    LET ps == Range(listed)
    IN CASE policy = "RANDOM" -> Orders(ps)
         [] policy = "PRESERVE" -> {listed}
         [] policy = "CREATOR_FIRST" ->
                IF creator \in ps
                THEN {<<creator>> \o o : o \in Orders(ps \ {creator})}
                ELSE Orders(ps)
         [] OTHER -> {Reversed(listed)}

\* GameInterface.__init__: the session before setup() has made its thread.
GameInterface(players, creator, rated) ==
    [NoSession EXCEPT !.created = TRUE, !.players = players, !.rated = rated,
                      !.creator = creator, !.game = NewGame(players)]

\* Pops that take a default: no key is missed.
pops_with_default(l, popped) ==
    [map |-> [p \in Players |-> IF p \in Range(popped) THEN None ELSE IN_MATCHMAKING[p]],
     err |-> "none"]

\* successful_matchmaking, its pops: "for p in players: IN_MATCHMAKING.pop(p)"
\* and "CURRENT_MATCHMAKING.pop(message.id)".  err: the KeyError of the
\* first key that is missing.
registry_pops(l, popped) ==
    LET pops == PopSeq(IN_MATCHMAKING, popped)
    IN [map |-> pops.map,
        err |-> IF ~pops.ok THEN "marker"
                ELSE IF l \notin CURRENT_MATCHMAKING THEN "registry"
                ELSE "none"]

\* callback_start_game after its message edit (the buttons are gone):
\* successful_matchmaking up to "await game.setup()".  The markers of the
\* queued players are popped in the order the set yields them, then the lobby
\* is taken out of the registry; either pop raises KeyError when the key is
\* gone.  policy: the plugin class's player_order.  built: the plugin class
\* accepts the players; what a plugin does when made for nobody is its own,
\* it may raise.
handoff(t, policy) ==
    LET tk == task[t]
        l == tk.id
        lb == lobby[l]
        raised(err) == /\ SetTask(t, Finished(tk, "escaped", err))
                       /\ UNCHANGED <<CURRENT_MATCHMAKING, GameVars>>
    IN /\ tk.op = "start" /\ tk.pc = "starting"
       /\ SetLobby(l, [lb EXCEPT !.can_start = FALSE])
       /\ UNCHANGED <<invites, calls>>
       /\ \E popped \in Orders(lb.queued_players) :
            LET pops == registry_pops(l, popped)
            IN /\ IN_MATCHMAKING' = pops.map
               /\ IF pops.err # "none" THEN raised(pops.err)
                  ELSE /\ CURRENT_MATCHMAKING' = CURRENT_MATCHMAKING \ {l}
                       /\ db' = create_game(db, l)
                       /\ UNCHANGED CURRENT_GAMES
                       /\ \E built \in {TRUE, lb.queued_players # {}} :
                            IF ~built
                            THEN /\ SetTask(t, Finished(tk, "escaped", "plugin"))
                                 /\ UNCHANGED <<session, IN_GAME>>
                            ELSE /\ \E listed \in Orders(lb.queued_players) :
                                    \E players \in Ordered(policy, listed, lb.creator) :
                                        /\ session' = [session EXCEPT
                                              ![l] = GameInterface(players, lb.creator, lb.rated)]
                                        /\ IN_GAME' = [p \in Players |->
                                              IF p \in Range(players) THEN l ELSE IN_GAME[p]]
                                 /\ SetTask(t, At(tk, "setup"))

successful_matchmaking(t) ==
    \E policy \in PlayerOrders :
        /\ task[t].pc = "starting"
        /\ handoff(t, policy)

\* successful_matchmaking after setup() has returned: the session has its
\* thread, is registered and shows its first state.
register_game(t) ==
    LET tk == task[t]
        l == tk.id
    IN /\ tk.op = "start" /\ tk.pc = "setup"
       /\ UNCHANGED <<LobbyVars, calls, IN_GAME, db>>
       /\ session' = [session EXCEPT ![l].thread = TRUE]
       /\ CURRENT_GAMES' = CURRENT_GAMES \cup {l}
       /\ SetTask(t, Finished(tk, "started", "none"))

\* "await self.message.delete()" has returned in leave, kick or ban (the
\* buttons are gone with the message): "self.outcome = False".
Cancelled(t) ==
    LET tk == task[t]
    IN /\ UNCHANGED <<GameVars, invites, calls, CURRENT_MATCHMAKING, IN_MATCHMAKING>>
       /\ SetLobby(tk.id, [lobby[tk.id] EXCEPT !.outcome = "False", !.can_start = FALSE])
       /\ SetTask(t, Finished(tk, "cancelled", "none"))

\* callback_leave_game after its two awaits.
leave_cancelled(t) ==
    /\ task[t].op = "leave" /\ task[t].pc = "leave_cancel"
    /\ Cancelled(t)

\* Commands that any player with a marker may give.
CommandRefusalAnyMember(user) ==
    IF IN_MATCHMAKING[user] = None THEN "not_in_matchmaking" ELSE "no"

\* The lobby a command acts on: the one the caller's marker names, and then
\* only for its creator.
CommandRefusal(user) ==
    IF IN_MATCHMAKING[user] = None THEN "not_in_matchmaking"
    ELSE IF lobby[IN_MATCHMAKING[user]].creator # user THEN "not_creator"
    ELSE "no"

Refused(t, tk, why) ==
    /\ SetTask(t, Finished(tk, why, "none"))
    /\ UNCHANGED <<lobby, IN_MATCHMAKING>>

\* MatchmakingInterface.kick from "if not len(self.queued_players)".
kick_rest(t, l, lb, tk) ==
    IF lb.queued_players = {}
    THEN SetLobby(l, lb) /\ SetTask(t, At(tk, "kick_cancel"))
    ELSE /\ \E nlb \in Reassigned(lb, tk.target) : SetLobby(l, nlb)
         /\ SetTask(t, Finished(tk, IF tk.kicked THEN "kicked" ELSE "not_in_lobby", "none"))

\* /kick: bot.command_kick and MatchmakingInterface.kick up to the repaint
\* that follows the removal of a queued target.
kick(t, user, target) ==
    LET l == IN_MATCHMAKING[user]
        tk == [NewTask("kick", user, l) EXCEPT
                  !.target = target,
                  !.alone = l # None /\ user = target /\ lobby[l].queued_players = {user}]
        go(lb) == SetLobby(l, lb) /\ SetTask(t, At([tk EXCEPT !.kicked = TRUE], "kick_painted"))
    IN /\ UNCHANGED <<GameVars, invites, CURRENT_MATCHMAKING>>
       /\ IF CommandRefusal(user) # "no" THEN Refused(t, tk, CommandRefusal(user))
          ELSE IF target \in lobby[l].queued_players
          THEN LET r == RemoveQueued(l, target)
               IN IF r.ok THEN IN_MATCHMAKING' = r.map /\ go(r.lb)
                  ELSE MarkerMissing(t, l, tk, r.lb)
          ELSE kick_rest(t, l, lobby[l], tk) /\ UNCHANGED IN_MATCHMAKING

command_kick(t) ==
    \E user, target \in Players :
        /\ Called(t)
        /\ kick(t, user, target)

\* kick after "await self.update_embed()".
kick_painted(t) ==
    LET tk == task[t]
    IN /\ tk.op = "kick" /\ tk.pc = "kick_painted"
       /\ UNCHANGED <<GameVars, invites, calls, CURRENT_MATCHMAKING, IN_MATCHMAKING>>
       /\ kick_rest(t, tk.id, update_embed(lobby[tk.id]), tk)

kick_cancelled(t) ==
    /\ task[t].op = "kick" /\ task[t].pc = "kick_cancel"
    /\ Cancelled(t)

\* /ban: bot.command_ban and MatchmakingInterface.ban.  The target is taken
\* out of the queue first; an emptied lobby is cancelled; otherwise the
\* creator is replaced if it was the target, and then the target leaves the
\* whitelist (private; KeyError is the "can't ban" answer) or enters the
\* blacklist (public).
ban(t, user, target) ==
    LET l == IN_MATCHMAKING[user]
        tk == [NewTask("ban", user, l) EXCEPT
                  !.target = target,
                  !.alone = l # None /\ user = target /\ lobby[l].queued_players = {user}]
        queued == target \in lobby[l].queued_players
        go(lb) ==
            IF lb.queued_players = {}
            THEN SetLobby(l, lb) /\ SetTask(t, At(tk, "ban_cancel"))
            ELSE \E nlb \in Reassigned(lb, target) :
                    IF nlb.private /\ target \notin nlb.whitelist
                    THEN SetLobby(l, nlb) /\ SetTask(t, Finished(tk, "cant_ban", "none"))
                    ELSE /\ SetLobby(l, update_embed(
                                        IF nlb.private
                                        THEN [nlb EXCEPT !.whitelist = @ \ {target}]
                                        ELSE [nlb EXCEPT !.blacklist = @ \cup {target}]))
                         /\ SetTask(t, Finished(tk,
                                IF queued THEN "kicked_banned" ELSE "only_banned", "none"))
    IN /\ UNCHANGED <<GameVars, invites, CURRENT_MATCHMAKING>>
       /\ IF CommandRefusal(user) # "no" THEN Refused(t, tk, CommandRefusal(user))
          ELSE IF queued
          THEN LET r == RemoveQueued(l, target)
               IN IF r.ok THEN IN_MATCHMAKING' = r.map /\ go(r.lb)
                  ELSE MarkerMissing(t, l, tk, r.lb)
          ELSE go(lobby[l]) /\ UNCHANGED IN_MATCHMAKING

command_ban(t) ==
    \E user, target \in Players :
        /\ Called(t)
        /\ ban(t, user, target)

ban_cancelled(t) ==
    /\ task[t].op = "ban" /\ task[t].pc = "ban_cancel"
    /\ Cancelled(t)

\* /invite with one invited user: the invitation with its accept button is
\* sent unless the user is queued in the caller's lobby or found in IN_GAME.
\* IN_GAME is keyed by player records and is asked for a discord.User here;
\* whether that finds an entry of the same id rests on discord.py's hashing,
\* so the test may also miss.
command_invite(t) ==
    \E user, target \in Players :
        LET l == IN_MATCHMAKING[user]
            tk == [NewTask("invite", user, l) EXCEPT !.target = target]
        IN /\ Called(t)
           /\ UNCHANGED <<GameVars, lobby, CURRENT_MATCHMAKING, IN_MATCHMAKING>>
           /\ IF l = None
              THEN SetTask(t, Finished(tk, "invite_not_in_matchmaking", "none")) /\ UNCHANGED invites
              ELSE IF lobby[l].private /\ lobby[l].creator # user
              THEN SetTask(t, Finished(tk, "invite_not_creator", "none")) /\ UNCHANGED invites
              ELSE \E found \in {FALSE, IN_GAME[target] # None} :
                    IF target \in lobby[l].queued_players \/ found
                    THEN SetTask(t, Finished(tk, "invite_failed", "none")) /\ UNCHANGED invites
                    ELSE /\ invites' = invites \cup {<<l, target>>}
                         /\ SetTask(t, Finished(tk, "invited", "none"))

\* An acceptance that leaves the lists as they are.
invited_lists_kept(lb, user) == lb

\* accept_invite, "if self.private: self.whitelist.add(player)" and else
\* "self.blacklist.remove(player)" (a KeyError is passed over).
invited_lists(lb, user) ==
    [lb EXCEPT !.whitelist = IF lb.private THEN @ \cup {user} ELSE @,
               !.blacklist = IF lb.private THEN @ ELSE @ \ {user}]

\* The invite button of lobby l pressed by user: bot.invite_accept_callback
\* after its defer, with accept_invite, up to the edit that disables the
\* button.
accept_invite(t, l, user) ==
    LET lb == lobby[l]
        tk == NewTask("accept", user, l)
        answered(result) == SetTask(t, [At(tk, "invite_answered") EXCEPT !.result = result])
    IN /\ UNCHANGED <<GameVars, invites, CURRENT_MATCHMAKING>>
       /\ IF l \notin CURRENT_MATCHMAKING
          THEN answered("expired") /\ UNCHANGED <<lobby, IN_MATCHMAKING>>
          ELSE IF user \in lb.queued_players
          THEN answered("invite_already_in") /\ UNCHANGED <<lobby, IN_MATCHMAKING>>
          ELSE /\ SetLobby(l, update_embed([invited_lists(lb, user) EXCEPT
                    !.queued_players = @ \cup {user}]))
               /\ IN_MATCHMAKING' = [IN_MATCHMAKING EXCEPT ![user] = l]
               /\ answered("accepted")

invite_accept_callback(t) ==
    \E iv \in invites :
        /\ Called(t)
        /\ accept_invite(t, iv[1], iv[2])

\* invite_accept_callback, its last edit: the clicked button is disabled.
invite_disabled(t) ==
    LET tk == task[t]
    IN /\ tk.op = "accept" /\ tk.pc = "invite_answered"
       /\ UNCHANGED <<GameVars, lobby, CURRENT_MATCHMAKING, IN_MATCHMAKING, calls>>
       /\ invites' = invites \ {<<tk.id, tk.user>>}
       /\ SetTask(t, Finished(tk, tk.result, "none"))

\* /settings: rated and private are each left alone ("None") or set.
Tri == {"None", "True", "False"}
Setting(old, new) == IF new = "None" THEN old ELSE new = "True"

\* Settings that put the queued players on the whitelist of a lobby they
\* make private.
changes_admit_queue(lb, rated, private) ==
    [lb EXCEPT !.rated = Setting(@, rated), !.private = Setting(@, private),
               !.whitelist = IF Setting(lb.private, private) THEN @ \cup lb.queued_players ELSE @]

\* command_settings, its two assignments.
changes(lb, rated, private) ==
    [lb EXCEPT !.rated = Setting(@, rated), !.private = Setting(@, private)]

\* /settings by user; the message is repainted when a flag has changed.
settings(t, user, rated, private) ==
    LET l == IN_MATCHMAKING[user]
        tk == NewTask("settings", user, l)
        lb == changes(lobby[l], rated, private)
    IN /\ UNCHANGED <<GameVars, invites, CURRENT_MATCHMAKING, IN_MATCHMAKING>>
       /\ IF CommandRefusal(user) # "no"
          THEN SetTask(t, Finished(tk, CommandRefusal(user), "none")) /\ UNCHANGED lobby
          ELSE IF lb = lobby[l]
          THEN SetTask(t, Finished(tk, "unchanged", "none")) /\ UNCHANGED lobby
          ELSE /\ SetLobby(l, update_embed(lb))
               /\ SetTask(t, Finished(tk, "updated", "none"))

command_settings(t) ==
    \E user \in Players, rated, private \in Tri :
        /\ Called(t)
        /\ settings(t, user, rated, private)

\* ------------------------------------------------- specification: one session
\* A session as successful_matchmaking leaves it: made from lobby 1 with the
\* players of one Tic-Tac-Toe game queued, registered, its first state
\* displayed, nothing settled yet.  The other users are in no session.
RetiredLobby ==
    [created |-> TRUE, creator |-> 1, rated |-> FALSE, private |-> FALSE,
     whitelist |-> {1}, blacklist |-> {}, queued_players |-> 1..TicTacToePlayers,
     outcome |-> "True", can_start |-> FALSE]

InitGame ==
    /\ \E rated \in BOOLEAN :
        /\ session = [s \in LobbyIds |->
                        IF s = 1
                        THEN RunningSession([i \in 1..TicTacToePlayers |-> i], 1, rated)
                        ELSE NoSession]
        /\ lobby = [l \in LobbyIds |->
                        IF l = 1 THEN [RetiredLobby EXCEPT !.rated = rated] ELSE NoLobby]
    /\ CURRENT_GAMES = {1}
    /\ CURRENT_MATCHMAKING = {}
    /\ IN_GAME = [p \in Players |-> IF p \in 1..TicTacToePlayers THEN 1 ELSE None]
    /\ IN_MATCHMAKING = [p \in Players |-> None]
    /\ db = [NewDb EXCEPT !.matches = {1}]
    /\ invites = {}
    /\ task = [t \in Tasks |-> IdleTask]
    /\ calls = 0
    /\ applied = NotApplied
    /\ tictactoe = TicTacToeGame(<<1, 2>>)

NextGame ==
    \E t \in Tasks :
        \/ handle_move(t)
        \/ game_button_callback(t)
        \/ game_select_callback(t)
        \/ move_resume(t)
        \/ move_after_response(t)
        \/ move_game_over(t)
        \/ move_return(t)

SpecGame == InitGame /\ [][NextGame]_vars

\* The same session with the scheduling of asyncio: a coroutine that can run
\* again is run again.  New submissions are the users' and are not forced.
FairGame ==
    /\ SpecGame
    /\ \A t \in Tasks :
          WF_vars(move_resume(t) \/ move_after_response(t)
                    \/ move_game_over(t) \/ move_return(t))

\* ------------------------------------- specification: two sessions, one player
\* Nothing keeps a player who is in a session out of a second lobby (/play
\* and the join button never read IN_GAME), so the players of session 1 have
\* made and started lobby 2 as well: both sessions run, and IN_GAME, which
\* holds one session per player, names the later one.
InitShared ==
    /\ \E rated \in BOOLEAN :
        /\ session = [s \in LobbyIds |->
                        IF s \in {1, 2}
                        THEN RunningSession([i \in 1..TicTacToePlayers |-> i], 1, rated)
                        ELSE NoSession]
        /\ lobby = [l \in LobbyIds |->
                        IF l \in {1, 2} THEN [RetiredLobby EXCEPT !.rated = rated] ELSE NoLobby]
    /\ CURRENT_GAMES = {1, 2}
    /\ CURRENT_MATCHMAKING = {}
    /\ IN_GAME = [p \in Players |-> IF p \in 1..TicTacToePlayers THEN 2 ELSE None]
    /\ IN_MATCHMAKING = [p \in Players |-> None]
    /\ db = [NewDb EXCEPT !.matches = {1, 2}]
    /\ invites = {}
    /\ task = [t \in Tasks |-> IdleTask]
    /\ calls = 0
    /\ applied = NotApplied
    /\ tictactoe = TicTacToeGame(<<1, 2>>)

SpecShared == InitShared /\ [][NextGame]_vars

\* ---------------------------------------------------- specification: lobbies
\* The bot after start-up: nothing registered, no lobby, no session.
InitLobby ==
    /\ session = [s \in LobbyIds |-> NoSession]
    /\ lobby = [l \in LobbyIds |-> NoLobby]
    /\ CURRENT_GAMES = {}
    /\ CURRENT_MATCHMAKING = {}
    /\ IN_GAME = [p \in Players |-> None]
    /\ IN_MATCHMAKING = [p \in Players |-> None]
    /\ db = NewDb
    /\ invites = {}
    /\ task = [t \in Tasks |-> IdleTask]
    /\ calls = 0
    /\ applied = NotApplied
    /\ tictactoe = TicTacToeGame(<<1, 2>>)

NextLobby ==
    \E t \in Tasks :
        \/ begin_game(t)
        \/ callback_ready_game(t)
        \/ callback_leave_game(t)
        \/ leave_cancelled(t)
        \/ callback_start_game(t)
        \/ successful_matchmaking(t)
        \/ register_game(t)
        \/ command_kick(t)
        \/ kick_painted(t)
        \/ kick_cancelled(t)
        \/ command_ban(t)
        \/ ban_cancelled(t)
        \/ command_invite(t)
        \/ invite_accept_callback(t)
        \/ invite_disabled(t)
        \/ command_settings(t)

SpecLobby == InitLobby /\ [][NextLobby]_vars

\* ------------------------------------------- specification: a lobby with a queue
\* Lobby 1 as /play by player 1 made it, public or private, and then entered
\* by some of the other users: through the join button when it is public,
\* through accepted invitations (which put them on the whitelist and whose
\* buttons are disabled by now) when it is private.  Every operation of the
\* bot can follow, /play by a queued player included.
JoinedLobby(private, joined) ==
    update_embed([MatchmakingInterface(1, FALSE, private) EXCEPT
        !.queued_players = @ \cup joined,
        !.whitelist = IF private THEN @ \cup joined ELSE @])

InitQueue ==
    /\ \E private \in BOOLEAN, joined \in SUBSET (Players \ {1}) :
        /\ lobby = [l \in LobbyIds |->
                        IF l = 1 THEN JoinedLobby(private, joined) ELSE NoLobby]
        /\ IN_MATCHMAKING = [p \in Players |-> IF p \in joined \cup {1} THEN 1 ELSE None]
    /\ session = [s \in LobbyIds |-> NoSession]
    /\ CURRENT_GAMES = {}
    /\ CURRENT_MATCHMAKING = {1}
    /\ IN_GAME = [p \in Players |-> None]
    /\ db = NewDb
    /\ invites = {}
    /\ task = [t \in Tasks |-> IdleTask]
    /\ calls = 0
    /\ applied = NotApplied
    /\ tictactoe = TicTacToeGame(<<1, 2>>)

SpecQueue == InitQueue /\ [][NextLobby]_vars

\* --------------------------------------------- specification: the whole bot
\* The bot with a session under way or with a lobby that has a queue, and
\* every operation on lobbies and on sessions.
InitBot == InitGame \/ InitQueue

NextBot == NextGame \/ NextLobby

SpecBot == InitBot /\ [][NextBot]_vars

\* ------------------------------------------- specification: pure functions
\* The functions of the pipeline that compute a value from their arguments
\* alone, each applied to arguments the bot can meet; the bot itself stands
\* still, as it is after start-up.  One application is examined in a
\* behaviour.
ProgramVars == <<CURRENT_GAMES, CURRENT_MATCHMAKING, IN_GAME, IN_MATCHMAKING,
                 lobby, session, db, invites, task, calls>>

Apply(fn, input, output) ==
    /\ applied' = [fn |-> fn, input |-> input, output |-> output]
    /\ UNCHANGED <<ProgramVars, tictactoe>>

\* The "players" attributes a plugin may declare.
PossiblePlayers ==
    {AsInt(k) : k \in 0..MaxCount}
        \cup {AsList(L) : L \in UNION {[1..n -> 0..MaxCount] : n \in 0..MaxListed}}

\* The lists of distinct players out of 1..n.
PlayerLists(n) == UNION {Orders(ps) : ps \in SUBSET (1..n)}

\* MatchmakingInterface.__init__ builds the validator, update_embed calls it.
verify_player_count ==
    /\ applied = NotApplied
    /\ \E possible_players \in PossiblePlayers, x \in 0..(MaxCount + 1) :
          Apply("player_verification_function", <<possible_players, x>>,
                player_verification_function(possible_players, x))

\* The order of play of a session made from a lobby: the players joined in
\* the order "joined" (queued_players.add), successful_matchmaking lists the
\* set (list(players)) and GameInterface.__init__ orders the list by the
\* plugin's policy.
order_players ==
    /\ applied = NotApplied
    /\ \E joined \in PlayerLists(MaxJoined) \ {<<>>}, policy \in PlayerOrders :
          \E creator \in Range(joined), listed \in Orders(Range(joined)) :
              \E players \in Ordered(policy, listed, creator) :
                  Apply("player_order",
                        [joined |-> joined, creator |-> creator, policy |-> policy],
                        players)

\* game_over for a ranked outcome: the placement groups of some players.
rank_placements ==
    /\ applied = NotApplied
    /\ \E ps \in SUBSET (1..MaxRanked) \ {{}} :
          \E placements \in Placements(ps) :
              Apply("rankings", placements, ranked_rankings(placements))

\* game_over for a single winner among the players of the session.
rank_winner ==
    /\ applied = NotApplied
    /\ \E players \in PlayerLists(MaxRanked) \ {<<>>} :
          \E winner \in Range(players) :
              Apply("winner", [players |-> players, winner |-> winner],
                    winner_rankings(players, winner))

InitPure == InitLobby

NextPure ==
    \/ verify_player_count
    \/ order_players
    \/ rank_placements
    \/ rank_winner

SpecPure == InitPure /\ [][NextPure]_vars

\* ------------------------------------------- specification: Tic-Tac-Toe
\* One game of Tic-Tac-Toe between players 1 and 2, as a session drives it:
\* moves are passed to the plugin until it reports an outcome.  A move names
\* any cell: the buttons of taken cells stay enabled and the move command
\* takes any text.
InitTicTacToe == InitLobby

play_move ==
    /\ tictactoe_outcome(tictactoe) = NoOutcome
    /\ \E mv \in Moves : tictactoe' = tictactoe_move(tictactoe, mv)
    /\ UNCHANGED <<ProgramVars, applied>>

NextTicTacToe == play_move

SpecTicTacToe == InitTicTacToe /\ [][NextTicTacToe]_vars

\* ============================================================= properties
\* The moves of session s that are between acquiring and releasing
\* processing_move.
InLock(s) ==
    {t \in Tasks : task[t].op \in MoveOps /\ task[t].id = s /\ task[t].pc \in LockedPcs}

\* No coroutine of a move is suspended anywhere.
Quiet == \A t \in Tasks : task[t].pc \in {"idle", "done"}

\* C1: game_over (settlement) runs at most once for a session, whatever the
\* interleaving of moves, a move that passed the ending check and then
\* waited for the lock included.
C1_SettlementAtMostOnce ==
    \A s \in LobbyIds : session[s].settlements <= 1

\* C2: a rated session that ended with a single winner or a placement list
\* has raised matches_played of every participant by exactly one (the counts
\* start at zero) once all its moves have returned.
C2_RatedMatchCountedOnce ==
    \A s \in LobbyIds :
        (/\ session[s].rated /\ session[s].settlements > 0
         /\ outcome(session[s].game).kind \in {"winner", "ranked"}
         /\ Quiet)
            => \A p \in Range(session[s].players) : db.matches_played[p] = 1

\* C3: once the ending flag of a session is set, no step invokes a move
\* handler of its plugin or changes the plugin's state.
C3_NoMoveAfterEnding ==
    [][\A s \in LobbyIds :
          session[s].ending_game =>
              /\ session'[s].handler_calls = session[s].handler_calls
              /\ session'[s].game = session[s].game]_vars

\* C4: at most one move of a session is between acquiring and releasing the
\* session's lock, and the lock is held exactly while there is one.
C4_OneMoveInLock ==
    \A s \in LobbyIds :
        /\ Cardinality(InLock(s)) <= 1
        /\ session[s].processing_move.locked <=> InLock(s) # {}

\* C4, its case: one move holds the lock while another waits for it.
C4_Witness ==
    \E s \in LobbyIds, t, u \in Tasks :
        /\ t \in InLock(s)
        /\ task[u].pc = "waiting" /\ task[u].id = s
        /\ session[s].handler_calls > 0

\* C5: a move that requires the turn of an actor who is not the plugin's
\* current player, read when the lock has been acquired, gets the
\* not-your-turn answer: no handler is invoked and the plugin is unchanged.
\* So with the turn required a handler runs only for the current player.
C5_TurnChecked ==
    [][\A t \in Tasks :
          LET arrives(s, user) ==
                  /\ Free(t)
                  /\ s \in CURRENT_GAMES
                  /\ ~session[s].ending_game
                  /\ CanAcquireNow(session[s].processing_move)
                  /\ user # current_turn(session[s].game)
                  /\ Submitted(t)
                  /\ \E op \in {"command", "button", "select"} :
                        move_entry(t, op, user, s, TRUE)
              resumes(s, user) ==
                  /\ task[t].pc = "waiting" /\ task[t].req
                  /\ task[t].id = s /\ task[t].user = user
                  /\ user # current_turn(session[s].game)
                  /\ move_resume(t)
          IN task'[t] # task[t] =>
                \A s \in LobbyIds, user \in Players :
                    (arrives(s, user) \/ resumes(s, user))
                        => /\ task'[t].pc = "not_your_turn"
                           /\ session'[s].handler_calls = session[s].handler_calls
                           /\ session'[s].game = session[s].game]_vars

\* C5, its case: a move was refused for the turn, after the turn had passed
\* to the other player by an earlier move.
C5_Witness ==
    \E s \in LobbyIds, t \in Tasks :
        /\ task[t].pc = "not_your_turn" /\ task[t].id = s
        /\ session[s].handler_calls > 0
        /\ current_turn(session[s].game) # session[s].players[1]

\* C6: whenever the plugin of a session reports an outcome (winner, placement
\* list or error string; rated or not), the session is eventually out of
\* CURRENT_GAMES and its players out of IN_GAME.
C6_OutcomeLeadsToRemoval ==
    \A s \in LobbyIds :
        (session[s].created /\ outcome(session[s].game) # NoOutcome)
            ~> (/\ s \notin CURRENT_GAMES
                /\ \A p \in Range(session[s].players) : IN_GAME[p] # s)

\* The lobbies that are registered and still pending, and the sessions that
\* are registered, with a given player in them.
PendingLobbiesOf(p) ==
    {l \in CURRENT_MATCHMAKING : lobby[l].outcome = "None" /\ p \in lobby[l].queued_players}
ActiveSessionsOf(p) ==
    {s \in CURRENT_GAMES : p \in Range(session[s].players)}

\* C7: a player is queued in at most one pending lobby and plays in at most
\* one registered session, and the player's markers name that lobby and that
\* session.
C7_OneLobbyOneSession ==
    \A p \in Players :
        /\ Cardinality(PendingLobbiesOf(p)) <= 1
        /\ Cardinality(ActiveSessionsOf(p)) <= 1
        /\ \A l \in PendingLobbiesOf(p) : IN_MATCHMAKING[p] = l
        /\ \A s \in ActiveSessionsOf(p) : IN_GAME[p] = s

\* C8: in every state, those with a coroutine suspended included, a player's
\* in-game marker names a session iff that session is registered and lists
\* the player, and the in-matchmaking marker names a lobby iff that lobby is
\* registered and has the player queued.
C8_MarkersAgreeWithRegistries ==
    \A p \in Players, n \in LobbyIds :
        /\ IN_GAME[p] = n <=> (n \in CURRENT_GAMES /\ p \in Range(session[n].players))
        /\ IN_MATCHMAKING[p] = n <=>
                (n \in CURRENT_MATCHMAKING /\ p \in lobby[n].queued_players)

\* C9: a step in which a handler is invoked never ends in an exception that
\* leaves the move; the step into the error answer leaves registries,
\* ending flag, settlement count, plugin and repository as they were; and
\* the move then returns with the lock released.
C9_HandlerErrorContained ==
    [][\A t \in Tasks, s \in LobbyIds :
          /\ (session'[s].handler_calls # session[s].handler_calls /\ task'[t] # task[t])
                => task'[t].result # "escaped"
          /\ (task'[t].pc = "move_error" /\ task[t].pc # "move_error" /\ task'[t].id = s)
                => /\ CURRENT_GAMES' = CURRENT_GAMES /\ IN_GAME' = IN_GAME /\ db' = db
                   /\ session'[s].ending_game = session[s].ending_game
                   /\ session'[s].settlements = session[s].settlements
                   /\ session'[s].game = session[s].game
          /\ (task[t].pc = "move_error" /\ task[t].id = s /\ task'[t] # task[t])
                => /\ task'[t].result = "move_error"
                   /\ ~session'[s].processing_move.locked
                   /\ s \in CURRENT_GAMES' <=> s \in CURRENT_GAMES
                   /\ session'[s].settlements = session[s].settlements]_vars

\* C9, its case: a move ended in the error answer and a later move of the
\* still registered, not ending session went through its handler and returned.
C9_Witness ==
    \E s \in LobbyIds, t, u \in Tasks :
        /\ t < u
        /\ task[t].result = "move_error" /\ task[u].result = "ok"
        /\ s \in CURRENT_GAMES /\ ~session[s].ending_game
        /\ session[s].settlements = 0 /\ session[s].handler_calls = 2
        /\ ~session[s].processing_move.locked

\* C10: a button move whose argument string cannot be converted to the int
\* or float its handler asks for ends as a handled move error: no exception
\* leaves the move.
C10_CoercionErrorHandled ==
    \A t \in Tasks : ~(task[t].result = "escaped" /\ task[t].err = "coercion")

\* C11: a move whose name the plugin has no attribute for ends as a handled
\* error in each of the three move paths: the exception of the lookup never
\* leaves the move.
C11_UnknownMoveHandled ==
    \A t \in Tasks : ~(task[t].result = "escaped" /\ task[t].err = "no_handler")

\* A lobby that is made and whose outcome is still None.
Pending(l) == lobby[l].created /\ lobby[l].outcome = "None"

\* C12: the join button of a public pending lobby pressed by a player who is
\* neither queued nor on the blacklist puts the player in the queue; pressed
\* by a queued player it is refused as already queued and leaves the queue,
\* the whitelist and the blacklist as they were.
C12_PublicJoinOnce ==
    [][\A t \in Tasks, P \in Players, l \in LobbyIds :
          (/\ Pending(l) /\ ~lobby[l].private
           /\ Called(t) /\ ready_game(t, P, l))
            => /\ (P \notin lobby[l].queued_players /\ P \notin lobby[l].blacklist)
                    => /\ task'[t].result = "joined"
                       /\ lobby'[l].queued_players = lobby[l].queued_players \cup {P}
               /\ P \in lobby[l].queued_players
                    => /\ task'[t].result = "already_in"
                       /\ lobby'[l].queued_players = lobby[l].queued_players
                       /\ lobby'[l].whitelist = lobby[l].whitelist
                       /\ lobby'[l].blacklist = lobby[l].blacklist]_vars

\* C12, its case: a second press of the join button by a queued player of a
\* public pending lobby was refused.
C12_Witness ==
    \E t \in Tasks, l \in LobbyIds :
        /\ task[t].result = "already_in"
        /\ Pending(l) /\ ~lobby[l].private
        /\ Cardinality(lobby[l].queued_players) > 1

\* C13: the join button of a private pending lobby pressed by a player who
\* is not queued puts the player in the queue iff the player is on the
\* whitelist; otherwise queue, whitelist and blacklist stay as they were.
C13_PrivateJoinIffWhitelisted ==
    [][\A t \in Tasks, P \in Players, l \in LobbyIds :
          (/\ Pending(l) /\ lobby[l].private
           /\ P \notin lobby[l].queued_players
           /\ Called(t) /\ ready_game(t, P, l))
            => /\ P \in lobby'[l].queued_players <=> P \in lobby[l].whitelist
               /\ task'[t].result = "joined" <=> P \in lobby[l].whitelist
               /\ P \in lobby[l].whitelist
                    => lobby'[l].queued_players = lobby[l].queued_players \cup {P}
               /\ P \notin lobby[l].whitelist
                    => /\ task'[t].result = "not_whitelisted"
                       /\ lobby'[l].queued_players = lobby[l].queued_players
                       /\ lobby'[l].whitelist = lobby[l].whitelist
                       /\ lobby'[l].blacklist = lobby[l].blacklist]_vars

\* C13, its case: a whitelisted player who had left a private pending lobby
\* came back through the join button.
C13_Witness ==
    \E t \in Tasks, l \in LobbyIds :
        /\ task[t].result = "joined"
        /\ Pending(l) /\ lobby[l].private
        /\ Cardinality(lobby[l].queued_players) > 1

\* C14: the join button of a public pending lobby pressed by a player who is
\* on the blacklist (and not queued: the refusal of a queued player comes
\* first) is refused as banned and leaves the queue, the blacklist and
\* IN_MATCHMAKING as they were.
C14_BannedCannotJoin ==
    [][\A t \in Tasks, P \in Players, l \in LobbyIds :
          (/\ Pending(l) /\ ~lobby[l].private
           /\ P \in lobby[l].blacklist /\ P \notin lobby[l].queued_players
           /\ Called(t) /\ ready_game(t, P, l))
            => /\ task'[t].result = "banned"
               /\ lobby'[l].queued_players = lobby[l].queued_players
               /\ lobby'[l].blacklist = lobby[l].blacklist
               /\ IN_MATCHMAKING' = IN_MATCHMAKING]_vars

\* C14, its case: a player banned from a public pending lobby pressed join
\* and was refused.
C14_Witness ==
    \E t \in Tasks, l \in LobbyIds :
        /\ task[t].result = "banned"
        /\ Pending(l) /\ ~lobby[l].private
        /\ lobby[l].blacklist # {}
        /\ lobby[l].blacklist \cap lobby[l].queued_players = {}

\* C15: the leave of the last member ends with the lobby's outcome False
\* (cancelled), and no step adds a player to the queue of a cancelled lobby.
C15_CancelledTakesNoPlayers ==
    [][\A l \in LobbyIds :
          /\ \A t \in Tasks :
                (/\ task[t].op = "leave" /\ task[t].pc = "leave_cancel" /\ task[t].id = l
                 /\ task'[t] # task[t])
                    => lobby'[l].outcome = "False"
          /\ lobby[l].outcome = "False"
                => lobby'[l].queued_players \subseteq lobby[l].queued_players]_vars

\* C16: the creator of a pending lobby is one of its queued players, in every
\* state; so a creator who left, was kicked or was banned has been replaced
\* by one of the players that remain.
C16_CreatorIsQueued ==
    \A l \in LobbyIds : Pending(l) => lobby[l].creator \in lobby[l].queued_players

\* The whitelist and the blacklist of every lobby are left as they are.
ListsUnchanged ==
    \A l \in LobbyIds :
        /\ lobby'[l].whitelist = lobby[l].whitelist
        /\ lobby'[l].blacklist = lobby[l].blacklist

\* C17: no step of a kick changes a whitelist or a blacklist, and the call
\* of a kick that is let through takes the target out of the queue.
C17_KickKeepsLists ==
    [][\A t \in Tasks :
          /\ \A user, target \in Players :
                (Called(t) /\ kick(t, user, target))
                    => /\ ListsUnchanged
                       /\ CommandRefusal(user) = "no"
                            => target \notin lobby'[IN_MATCHMAKING[user]].queued_players
          /\ (task[t].op = "kick" /\ task'[t] # task[t]) => ListsUnchanged]_vars

\* C17, its case: a queued player who is on a list of the lobby was kicked
\* and is still on that list.
C17_Witness ==
    \E t \in Tasks, l \in LobbyIds :
        /\ task[t].result = "kicked"
        /\ Pending(l)
        /\ (lobby[l].whitelist \cup lobby[l].blacklist) \ lobby[l].queued_players # {}
        /\ lobby[l].queued_players # {}

\* C18: a ban that is let through and does not empty the lobby leaves the
\* target out of the queue, on the blacklist of a public lobby, and off the
\* whitelist of a private lobby that had the target on it; after a ban that
\* reported success a join by the target is refused.
C18_BanExcludes ==
    [][\A t \in Tasks, user, target \in Players :
          (Called(t) /\ ban(t, user, target) /\ CommandRefusal(user) = "no")
            => LET l == IN_MATCHMAKING[user]
                   new == lobby'[l]
               IN new.queued_players # {}
                    => /\ target \notin new.queued_players
                       /\ ~lobby[l].private => target \in new.blacklist
                       /\ (lobby[l].private /\ target \in lobby[l].whitelist)
                            => target \notin new.whitelist
                       /\ task'[t].result \in {"only_banned", "kicked_banned"}
                            => JoinRefusal(new, target) # "no"]_vars

\* C19: a ban that ends with the "can't ban" answer has left the lobby and
\* the marker map as they were.
C19_CantBanChangesNothing ==
    [][\A t \in Tasks, user, target \in Players :
          (Called(t) /\ ban(t, user, target) /\ task'[t].result = "cant_ban")
            => /\ lobby' = lobby
               /\ IN_MATCHMAKING' = IN_MATCHMAKING]_vars

\* C20: a kick or ban called by the creator on themself as the only queued
\* member changes no list, ends with the lobby's outcome False and answers
\* with the explanation, never with a success message.
C20_SelfRemovalCancels ==
    [][\A t \in Tasks :
          /\ \A user \in Players :
                (/\ Called(t)
                 /\ kick(t, user, user) \/ ban(t, user, user)
                 /\ task'[t].alone)
                    => ListsUnchanged
          /\ (task[t].alone /\ task'[t] # task[t])
                => /\ ListsUnchanged
                   /\ task'[t].op = "done"
                        => /\ task'[t].result = "cancelled"
                           /\ lobby'[task[t].id].outcome = "False"]_vars

\* The validator of the lobby's game rejects the size of its queue.
Rejected(l) ==
    ~player_verification_function(AsInt(TicTacToePlayers),
                                  Cardinality(lobby[l].queued_players))

\* C21: a press of the start button of a pending registered lobby whose queue
\* size the player-count validator rejects leaves the outcome pending and the
\* lobby registered, and starts no handoff to a session.
C21_StartNeedsCapacity ==
    [][\A t \in Tasks, user \in Players, l \in LobbyIds :
          (/\ Pending(l) /\ l \in CURRENT_MATCHMAKING /\ Rejected(l)
           /\ Called(t) /\ start_game(t, user, l))
            => /\ lobby'[l].outcome = "None"
               /\ l \in CURRENT_MATCHMAKING'
               /\ task'[t].pc # "starting"
               /\ session' = session]_vars

\* C22: the start button of a registered lobby pressed by anyone but the
\* lobby's creator is answered with the not-the-creator refusal and changes
\* nothing: no lobby, registry, marker, session or repository row.
C22_OnlyCreatorStarts ==
    [][\A t \in Tasks, user \in Players, l \in LobbyIds :
          (/\ l \in CURRENT_MATCHMAKING /\ user # lobby[l].creator
           /\ Called(t) /\ start_game(t, user, l))
            => /\ task'[t].result = "cant_start"
               /\ task'[t].op = "done"
               /\ lobby' = lobby
               /\ UNCHANGED <<CURRENT_MATCHMAKING, IN_MATCHMAKING, GameVars, invites>>]_vars

\* C22, its case: a start was refused as not the creator's while a pending
\* lobby with the players of a game queued shows its start button.
C22_Witness ==
    \E t \in Tasks, l \in LobbyIds :
        /\ task[t].result = "cant_start"
        /\ Pending(l) /\ lobby[l].can_start
        /\ Cardinality(lobby[l].queued_players) > 1

\* The start of lobby l has been accepted and its handoff has not yet reached
\* successful_matchmaking.
HandingOff(l) ==
    /\ lobby[l].outcome = "True"
    /\ \E t \in Tasks : task[t].op = "start" /\ task[t].pc = "starting" /\ task[t].id = l

\* C23: while an accepted start is handing off, no step changes the queue of
\* its lobby, and the session that the handoff makes has exactly the queued
\* players (hence those queued when the start was accepted).
C23_HandoffTakesQueueAtStart ==
    [][\A l \in LobbyIds :
          HandingOff(l)
            => /\ lobby'[l].queued_players = lobby[l].queued_players
               /\ session'[l].created
                    => Range(session'[l].players) = lobby[l].queued_players]_vars

\* The caller of a command is the creator of the lobby the caller's marker
\* names, and is queued in it.
CreatorOfOwnLobby(user) ==
    /\ IN_MATCHMAKING[user] # None
    /\ lobby[IN_MATCHMAKING[user]].creator = user
    /\ user \in lobby[IN_MATCHMAKING[user]].queued_players

\* Queue, creator, flags and lists of every lobby are left as they are.
LobbiesUntouched ==
    \A l \in LobbyIds :
        /\ lobby'[l].queued_players = lobby[l].queued_players
        /\ lobby'[l].creator = lobby[l].creator
        /\ lobby'[l].rated = lobby[l].rated
        /\ lobby'[l].private = lobby[l].private
        /\ lobby'[l].whitelist = lobby[l].whitelist
        /\ lobby'[l].blacklist = lobby[l].blacklist

\* C24: a call of /kick, /ban or /settings by a user who is not the creator
\* of the lobby the user is queued in is refused and leaves queue, creator,
\* rated and private flag, whitelist and blacklist of every lobby as they
\* were; a call that is let through acts on that lobby alone.
C24_CommandsAreTheCreators ==
    [][\A t \in Tasks, user \in Players :
          (/\ Called(t)
           /\ \/ \E target \in Players : kick(t, user, target) \/ ban(t, user, target)
              \/ \E rated, private \in Tri : settings(t, user, rated, private))
            => /\ ~CreatorOfOwnLobby(user)
                    => /\ LobbiesUntouched
                       /\ task'[t].result \in {"not_in_matchmaking", "not_creator"}
               /\ \A l \in LobbyIds : l # IN_MATCHMAKING[user] => lobby'[l] = lobby[l]]_vars

\* C24, its case: a command of a queued player who is not the creator of the
\* lobby was refused.
C24_Witness ==
    \E t \in Tasks, l \in LobbyIds :
        /\ task[t].result = "not_creator"
        /\ Pending(l)
        /\ Cardinality(lobby[l].queued_players) > 1

\* C25: a call of /settings leaves queue, creator, whitelist and blacklist of
\* every lobby as they were, and the flags of every lobby but the caller's;
\* let through, it sets each flag that was given and keeps each that was not.
C25_SettingsChangeFlagsOnly ==
    [][\A t \in Tasks, user \in Players, rated, private \in Tri :
          (Called(t) /\ settings(t, user, rated, private))
            => /\ \A l \in LobbyIds :
                    /\ lobby'[l].queued_players = lobby[l].queued_players
                    /\ lobby'[l].creator = lobby[l].creator
                    /\ lobby'[l].whitelist = lobby[l].whitelist
                    /\ lobby'[l].blacklist = lobby[l].blacklist
                    /\ lobby'[l].outcome = lobby[l].outcome
                    /\ l # IN_MATCHMAKING[user] => lobby'[l] = lobby[l]
               /\ UNCHANGED <<CURRENT_MATCHMAKING, IN_MATCHMAKING, GameVars, invites>>
               /\ CreatorOfOwnLobby(user)
                    => LET old == lobby[IN_MATCHMAKING[user]]
                           new == lobby'[IN_MATCHMAKING[user]]
                       IN /\ new.rated = (IF rated = "None" THEN old.rated ELSE rated = "True")
                          /\ new.private = (IF private = "None" THEN old.private
                                            ELSE private = "True")]_vars

\* C25, its case: settings were updated and have left a private pending lobby
\* with a queued player who is not on its whitelist.
C25_Witness ==
    \E t \in Tasks, l \in LobbyIds :
        /\ task[t].result = "updated"
        /\ Pending(l) /\ lobby[l].private
        /\ lobby[l].queued_players \ lobby[l].whitelist # {}

\* C26: the validator built from an integer k accepts n iff n = k, and the
\* validator built from a list accepts n iff n is an entry of the list, for
\* every declared count and every n up to MaxCount + 1.
C26_ValidatorIsMembership ==
    applied.fn = "player_verification_function"
        => LET declared == applied.input[1]
               n == applied.input[2]
           IN /\ declared.type = "int" => (applied.output <=> n = declared.value)
              /\ declared.type = "list"
                    => (applied.output <=>
                            \E i \in 1..Len(declared.value) : declared.value[i] = n)

\* C26, its case: a list of two different counts accepted its second entry.
C26_Witness ==
    /\ applied.fn = "player_verification_function"
    /\ applied.input[1].type = "list"
    /\ Len(applied.input[1].value) = 2
    /\ applied.input[1].value[1] # applied.input[1].value[2]
    /\ applied.input[2] = applied.input[1].value[2]
    /\ applied.output

\* C27: a session that the handoff makes for a plugin whose player_order is
\* CREATOR_FIRST has the creator of its lobby as the first of its players.
C27_CreatorFirst ==
    [][\A t \in Tasks :
          (handoff(t, "CREATOR_FIRST") /\ task'[t].pc = "setup")
            => LET made == session'[task[t].id]
               IN /\ Len(made.players) > 0
                  /\ made.players[1] = lobby[task[t].id].creator
                  /\ made.players[1] = made.creator]_vars

\* C28: under PRESERVE the players of the session are in the order in which
\* they joined the lobby, under REVERSE in the reverse of that order.
C28_JoinOrderKept ==
    applied.fn = "player_order"
        => /\ applied.input.policy = "PRESERVE" => applied.output = applied.input.joined
           /\ applied.input.policy = "REVERSE"
                => /\ Len(applied.output) = Len(applied.input.joined)
                   /\ \A i \in 1..Len(applied.output) :
                        applied.output[i] =
                            applied.input.joined[Len(applied.output) + 1 - i]

\* The placement group (from 1) of the outcome that holds player p.
PlacementOf(placements, p) ==
    CHOOSE i \in 1..Len(placements) : p \in Range(placements[i])

\* C29: for a ranked outcome every player of the outcome gets one group of
\* their own and, as rank, the 0-based index of the placement group that
\* holds the player: tied players share a rank and the ranks of consecutive
\* placements differ by exactly one.
C29_RankIsPlacementIndex ==
    applied.fn = "rankings"
        => LET placements == applied.input
               rankings == applied.output.rankings
               groups == applied.output.groups
               all == UNION {Range(placements[i]) : i \in 1..Len(placements)}
           IN /\ Len(rankings) = Len(groups)
              /\ Len(groups) = Cardinality(all)
              /\ \A j \in 1..Len(groups) :
                    /\ Len(groups[j]) = 1
                    /\ groups[j][1] \in all
                    /\ rankings[j] = PlacementOf(placements, groups[j][1]) - 1
              /\ \A p \in all : \E j \in 1..Len(groups) : groups[j][1] = p
              /\ Range(rankings) = 0..(Len(placements) - 1)

\* C29, its case: four players placed as two tied first, then one, then one.
C29_Witness ==
    /\ applied.fn = "rankings"
    /\ Len(applied.input) = 3
    /\ Len(applied.input[1]) = 2
    /\ applied.output.rankings = <<0, 0, 1, 2>>

\* C30: for a single winner in a session of n players settlement makes n
\* groups of one player each, the winner's first and one for every other
\* player of the session, with the ranks 0 for the winner and 1 for all the
\* others.
C30_WinnerFirstOthersTied ==
    applied.fn = "winner"
        => LET players == applied.input.players
               winner == applied.input.winner
               rankings == applied.output.rankings
               groups == applied.output.groups
               n == Len(players)
           IN /\ Len(groups) = n /\ Len(rankings) = n
              /\ \A j \in 1..n : Len(groups[j]) = 1
              /\ groups[1][1] = winner
              /\ \A p \in Range(players) :
                    Cardinality({j \in 1..n : groups[j][1] = p}) = 1
              /\ rankings[1] = 0
              /\ \A j \in 2..n : rankings[j] = 1

\* C30, its case: a session of three or more players was settled for a
\* winner who is not the first of its players.
C30_Witness ==
    /\ applied.fn = "winner"
    /\ Len(applied.input.players) >= 3
    /\ applied.input.players[1] # applied.input.winner
    /\ applied.output.rankings[1] = 0

\* C31: the settlement of a single-winner outcome in an unrated session
\* writes nothing to the repository, marks the session as ending, takes it
\* out of CURRENT_GAMES and leaves none of its players in IN_GAME.
C31_UnratedWinnerWritesNothing ==
    [][\A t \in Tasks :
          LET s == task[t].id
          IN (/\ task[t].op \in MoveOps /\ task[t].pc = "game_over_msg"
              /\ task[t].outcome.kind = "winner"
              /\ ~session[s].rated
              /\ task'[t] # task[t])
                => /\ db' = db
                   /\ session'[s].ending_game
                   /\ s \notin CURRENT_GAMES'
                   /\ \A p \in Range(session[s].players) : IN_GAME'[p] = None]_vars

\* C32: every match_participants row that the settlement of a rated session
\* writes carries the rank settlement gave that participant: 0 for the
\* winner, 1 for every other player.
C32_HistoryStoresRank ==
    [][\A t \in Tasks :
          (/\ task[t].op \in MoveOps /\ task[t].pc = "game_over_msg"
           /\ task[t].outcome.kind = "winner"
           /\ session[task[t].id].rated)
            => \A r \in db'.match_participants \ db.match_participants :
                    r.ranking = IF r.uid = task[t].outcome.who THEN 0 ELSE 1]_vars

\* C33: a /play whose repository call for the creator's player record fails
\* creates no lobby: no lobby object is set up, the registry of lobbies and the
\* in-matchmaking map stay as they were, and the creator is answered (with the
\* error embed of the command's error handler).
C33_FailedCreationRegistersNothing ==
    [][\A t \in Tasks :
          (task'[t] # task[t] /\ task'[t].err = "database")
            => /\ lobby' = lobby
               /\ CURRENT_MATCHMAKING' = CURRENT_MATCHMAKING
               /\ IN_MATCHMAKING' = IN_MATCHMAKING
               /\ command_error(task'[t]) = "error_embed"]_vars

\* A /play has failed at the repository after another lobby was created.
C33_Witness ==
    \E t \in Tasks :
        /\ task[t].err = "database" /\ command_error(task[t]) = "error_embed"
        /\ CURRENT_MATCHMAKING # {}

\* The lobbies, the sessions, the registries and the membership maps are as
\* they were.
NothingChanged ==
    UNCHANGED <<lobby, session, db, CURRENT_GAMES, CURRENT_MATCHMAKING, IN_GAME,
                IN_MATCHMAKING, invites>>

\* C34: a lobby button (join, leave, start) whose lobby is not in
\* CURRENT_MATCHMAKING is answered as expired, a game button whose session is
\* not in CURRENT_GAMES is answered as over, and neither changes a lobby, a
\* session, a registry or a membership map.
C34_StaleButtonChangesNothing ==
    [][\A t \in Tasks, user \in Players, l \in LobbyIds :
          /\ (/\ l \notin CURRENT_MATCHMAKING /\ Called(t)
              /\ \/ ready_game(t, user, l)
                 \/ leave_game(t, user, l)
                 \/ start_game(t, user, l))
                => task'[t].result = "expired" /\ NothingChanged
          /\ \A req \in BOOLEAN :
                (/\ l \notin CURRENT_GAMES /\ Submitted(t)
                 /\ move_entry(t, "button", user, l, req))
                    => task'[t].result = "over" /\ NothingChanged]_vars

\* A lobby button was answered as expired after the session had ended and a
\* game button had been pressed.
C34_Witness ==
    /\ \E t \in Tasks : task[t].result = "expired"
    /\ \E s \in LobbyIds : session[s].created /\ s \notin CURRENT_GAMES
    /\ calls = 3

\* s is a prefix of q.
IsPrefix(s, q) == Len(s) <= Len(q) /\ \A i \in 1..Len(s) : q[i] = s[i]

\* C35: the moves blocked on a session's lock are served in the order in
\* which they started to wait, and one at a time: the queue of waiters only
\* grows at its end and shrinks at its head; while the move that has waited
\* longest still waits, no other move enters the locked section, and a move
\* that arrives behind waiting moves waits behind them; at most one move is
\* in the locked section.
C35_WaitersServedInOrder ==
    [][\A s \in LobbyIds :
          LET l == session[s].processing_move
              first == Head(l.waiters)
          IN /\ Cardinality(InLock(s)') <= 1
             /\ \/ IsPrefix(l.waiters, session'[s].processing_move.waiters)
                \/ session'[s].processing_move.waiters = Tail(l.waiters)
             /\ (l.waiters # <<>> /\ task'[first].pc = "waiting")
                    => /\ InLock(s)' \subseteq InLock(s)
                       /\ Head(session'[s].processing_move.waiters) = first
             /\ \A t \in Tasks, user \in Players, req \in BOOLEAN, op \in {"command", "button", "select"} :
                    (/\ l.waiters # <<>> /\ s \in CURRENT_GAMES /\ ~session[s].ending_game
                     /\ Submitted(t) /\ move_entry(t, op, user, s, req))
                        => /\ task'[t].pc = "waiting"
                           /\ session'[s].processing_move.waiters = Append(l.waiters, t)]_vars

\* A move arrived while the lock was free and an earlier move, woken, had not
\* run yet: it waits behind that move.
C35_Witness ==
    \E s \in LobbyIds :
        LET l == session[s].processing_move
        IN /\ Len(l.waiters) = 2 /\ l.woken /\ ~l.locked
           /\ \A i \in 1..2 : task[l.waiters[i]].pc = "waiting"

\* C36: with every awaited call returning (the continuations of a move are
\* weakly fair), a move that waits for the lock of its session eventually has
\* acquired and released it and is done, whatever became of the moves before
\* it (refused, failed, settled, or left by an exception); a held lock is
\* eventually free, and it is free whenever no move is in flight.
C36_WaitersGetAndReleaseTheLock ==
    /\ \A t \in Tasks : (task[t].pc = "waiting") ~> (task[t].pc = "done")
    /\ \A s \in LobbyIds :
          session[s].processing_move.locked ~> ~session[s].processing_move.locked
    /\ [](Quiet => \A s \in LobbyIds :
                      /\ ~session[s].processing_move.locked
                      /\ session[s].processing_move.waiters = <<>>)

\* A move waits while the move that holds the lock has failed in settlement.
C36_Witness ==
    \E t, u \in Tasks :
        /\ task[t].pc = "waiting"
        /\ task[u].pc = "settled_error" /\ task[u].id = task[t].id

\* C37: of two starts of one lobby that were both accepted before either
\* reached the handoff, at most one creates a session: a handoff that runs
\* when a session has been made from the lobby is left by an exception and
\* changes no session, no in-game marker, no registry of sessions and no
\* match; the handoff that makes the session marks exactly its players as in
\* that session.
C37_DoubleStartOneSession ==
    [][\A t \in Tasks :
          LET l == task[t].id
          IN (task[t].op = "start" /\ task[t].pc = "starting" /\ task'[t] # task[t])
                => IF session[l].created
                   THEN /\ task'[t].result = "escaped"
                        /\ UNCHANGED <<session, IN_GAME, CURRENT_GAMES, db>>
                   ELSE task'[t].pc = "setup"
                            => /\ session'[l].created
                               /\ \A p \in Players :
                                     IN_GAME'[p] = IF p \in Range(session'[l].players)
                                                   THEN l ELSE IN_GAME[p]]_vars

\* The second of two interleaved starts has failed at the handoff while the
\* session of the first is being set up.
C37_Witness ==
    \E t, u \in Tasks :
        /\ task[t].op = "start" /\ task[t].pc = "setup"
        /\ task[u].result = "escaped" /\ task[u].err \in {"marker", "registry"}
        /\ session[task[t].id].created

\* C38: the outcome of a lobby is absorbing.  Once a lobby has succeeded or
\* has been cancelled no step changes its outcome again; no session is made
\* from a cancelled lobby, and none from a succeeded lobby that has one.
C38_OutcomeAbsorbing ==
    [][\A l \in LobbyIds :
          lobby[l].outcome # "None"
            => /\ lobby'[l].outcome = lobby[l].outcome
               /\ (lobby[l].outcome = "False" \/ session[l].created)
                    => \A t \in Tasks :
                          ~(/\ task[t].op = "start" /\ task[t].id = l
                            /\ task[t].pc = "starting" /\ task'[t].pc = "setup")]_vars

\* C39: an invitation to a registered, pending lobby accepted by a player who
\* is not in its queue puts the player into the queue with a marker for the
\* lobby and overrides the lists (private: the player is on the whitelist;
\* public: the player is off the blacklist), whatever the lists said before
\* and changing nothing else of the lobby but the painted start button; an
\* acceptance by a player who is in the queue changes no lobby and no marker.
C39_AcceptQueuesAndOverrides ==
    [][\A t \in Tasks, l \in LobbyIds, user \in Players :
          LET lb == lobby[l]
              nlb == lobby'[l]
          IN (/\ l \in CURRENT_MATCHMAKING /\ lb.outcome = "None"
              /\ <<l, user>> \in invites
              /\ Called(t) /\ accept_invite(t, l, user))
                => IF user \in lb.queued_players
                   THEN UNCHANGED <<lobby, IN_MATCHMAKING, CURRENT_MATCHMAKING, GameVars>>
                   ELSE /\ nlb.queued_players = lb.queued_players \cup {user}
                        /\ IN_MATCHMAKING' = [IN_MATCHMAKING EXCEPT ![user] = l]
                        /\ nlb.whitelist = IF lb.private THEN lb.whitelist \cup {user}
                                           ELSE lb.whitelist
                        /\ nlb.blacklist = IF lb.private THEN lb.blacklist
                                           ELSE lb.blacklist \ {user}
                        /\ lb.private => user \in nlb.whitelist
                        /\ ~lb.private => user \notin nlb.blacklist
                        /\ [nlb EXCEPT !.can_start = lb.can_start]
                             = [lb EXCEPT !.queued_players = nlb.queued_players,
                                          !.whitelist = nlb.whitelist,
                                          !.blacklist = nlb.blacklist]
                        /\ \A k \in LobbyIds \ {l} : lobby'[k] = lobby[k]]_vars

\* A player who was not on the whitelist of a private lobby has accepted an
\* invitation and is queued and whitelisted.
C39_Witness ==
    \E t \in Tasks :
        LET lb == lobby[task[t].id]
        IN /\ task[t].op = "accept" /\ task[t].result = "accepted"
           /\ lb.private /\ lb.outcome = "None"
           /\ task[t].user \in lb.queued_players \cap lb.whitelist

\* C40: in Tic-Tac-Toe a taken cell keeps its owner: no move changes the
\* owner of a cell that is occupied, and a move on an occupied cell does not
\* advance the turn.
C40_TakenCellKeepsOwner ==
    [][/\ \A r, c \in Idx :
            tictactoe.board[r][c] # None
                => tictactoe'.board[r][c] = tictactoe.board[r][c]
       /\ \A mv \in Moves :
            (/\ tictactoe.board[mv[2]][mv[1]] # None
             /\ tictactoe' = tictactoe_move(tictactoe, mv))
                => tictactoe'.turn = tictactoe.turn]_vars

====
